---- MODULE Spec2Model ----
(***************************************************************************)
(* Model of the fabrikator CAD feature library:                            *)
(*   - backend/tools/run_generated_guarded.py : the guarded script runner  *)
(*   - cadlib/validators.py                   : parameter validation       *)
(*   - cadlib/standards.py                    : hole patterns              *)
(* Lengths are fixed-point integers in hundredths of a millimetre.         *)
(***************************************************************************)
EXTENDS Integers, Sequences, FiniteSets, TLC

VARIABLES
    script,      \* the generated script handed to the runner (argv, source)
    pc,          \* position of main() in run_generated_guarded.py
    exitStatus,  \* process exit status, Running while main() is executing
    executed,    \* TRUE once runpy.run_path has run the script's code
    env,         \* module globals returned by runpy.run_path
    build,       \* what env.get("build") is: "absent" or "callable"
    parts,       \* return value of build(), PartsNone when there is none
    items,       \* list[(name, solid_like)] collected for export
    idx,         \* index in items of the output exported next
    files,       \* .stl files in out/: stem and the output that wrote it last
    diag,        \* diagnostics written to stdout/stderr, in order
    vcase,       \* validators: the constructor call under validation
    vresult,     \* validators: outcome of the constructor call
    geom,        \* cadlib feature function applied to the constructed parameters
    pcall,       \* standards: the pattern function call
    presult      \* standards: outcome of the pattern function call

runnerVars == <<script, pc, exitStatus, executed, env, build, parts, items, idx, files, diag>>
validVars == <<vcase, vresult, geom>>
patVars == <<pcall, presult>>
vars == <<script, pc, exitStatus, executed, env, build, parts, items, idx, files, diag,
          vcase, vresult, geom, pcall, presult>>

(***************************************************************************)
(* Bounds of the model                                                     *)
(***************************************************************************)
MaxImports == 2

MaxItems == 2

Running == 0 - 1

(***************************************************************************)
(* run_generated_guarded.py : static import guard                          *)
(***************************************************************************)
FORBIDDEN == {"cadquery", "cq", "build123d", "OCP", "occ", "occmodel"}

\* A dotted module name is the sequence of its components; ast gives
\* ImportFrom.module = None for "from . import x", modelled as <<>>.
ModNone == <<>>

\* Import statements found by ast.walk, at any nesting depth.
ImportNodes ==
    { [type |-> "Import",     names |-> << <<"os">>, <<"cadquery">> >>, module |-> ModNone,         depth |-> 0],
      [type |-> "Import",     names |-> << <<"cadquery">> >>,           module |-> ModNone,         depth |-> 0],
      [type |-> "Import",     names |-> << <<"OCP", "gp">> >>,          module |-> ModNone,         depth |-> 1],
      [type |-> "ImportFrom", names |-> << <<"Box">> >>,                module |-> <<"build123d">>, depth |-> 0],
      [type |-> "ImportFrom", names |-> << <<"tube">> >>,               module |-> <<"cadlib">>,    depth |-> 0],
      [type |-> "ImportFrom", names |-> << <<"helpers">> >>,            module |-> ModNone,         depth |-> 1] }

\* mod.split(".")[0]; "".split(".")[0] is "".
SplitHead(mod) == IF mod = ModNone THEN "" ELSE mod[1]

\* line 65: the module name the guard looks at
GuardMod(node) == IF node.type = "Import" THEN node.names[1] ELSE node.module

\* lines 64-66
GuardHits(node) == SplitHead(GuardMod(node)) \in FORBIDDEN

\* lines 63-67: index of the first node the guard rejects, 0 when none
FirstHit(imports) ==
    IF \E i \in 1..Len(imports) : GuardHits(imports[i])
    THEN CHOOSE i \in 1..Len(imports) :
            /\ GuardHits(imports[i])
            /\ \A j \in 1..(i - 1) : ~GuardHits(imports[j])
    ELSE 0

(***************************************************************************)
(* run_generated_guarded.py : output names and file stems                  *)
(***************************************************************************)
\* Characters for which str.isalnum() is true, among those modelled.
AlnumChars == {"a", "b", "p", "r", "t", "1", "2", "3", "4"}

SanitizeChar_Keep(ch) == ch

SanitizeChar(ch) == IF ch \in AlnumChars \/ ch \in {"-", "_"} THEN ch ELSE "_"

\* lines 48-50
SanitizeName(name) ==
    LET safe == [i \in 1..Len(name) |-> SanitizeChar(name[i])]
    IN  IF safe = <<>> THEN <<"p", "a", "r", "t">> ELSE safe

DigitStr == <<"1", "2", "3", "4">>

\* f"part{idx+1}" for the 0-based idx of enumerate(), given here 1-based
PartName(i) == <<"p", "a", "r", "t", DigitStr[i]>>

\* Output names a script may give.
NameSet ==
    { <<>>, <<"a", "-", "1">>, <<"a", "_", "b">>, <<"a", "/", "b">>, <<".", ".">> }

PartsNone == [tag |-> "none", elems |-> <<>>]

SeqsUpTo(S, n) == UNION { [1..k -> S] : k \in 0..n }

DistinctNames(s) == \A i, j \in 1..Len(s) : i # j => s[i].name # s[j].name

DictElems == [name : NameSet, kind : {"Workplane", "other"}]

ListElems == [pair : BOOLEAN, name : NameSet, kind : {"Workplane", "other"}]

\* Values build() may return: a dict, a list or tuple, a single object, None.
BuildReturns ==
    { [tag |-> "dict", elems |-> s] : s \in { d \in SeqsUpTo(DictElems, MaxItems) : DistinctNames(d) } }
    \cup { [tag |-> "list", elems |-> s] :
             s \in { l \in SeqsUpTo(ListElems, MaxItems) :
                       \A i \in 1..Len(l) : (~l[i].pair) => l[i].name = <<>> } }
    \cup { [tag |-> "single", elems |-> << [name |-> <<>>, kind |-> k] >>] : k \in {"Workplane", "other"} }
    \cup { PartsNone }

\* Module globals a script may leave behind (besides cq, build, dunders);
\* a global of kind "dict" is a dict {name: solid}, its entries in elems.
EnvSet ==
    { <<>>,
      << [name |-> <<"a">>, kind |-> "Workplane"] >>,
      << [name |-> <<"a">>, kind |-> "Compound"], [name |-> <<"b">>, kind |-> "Workplane"] >>,
      << [name |-> <<"a">>, kind |-> "other"] >>,
      << [name |-> <<"o", "u", "t", "p", "u", "t", "s">>, kind |-> "dict",
          elems |-> << [name |-> <<"a", "-", "1">>, kind |-> "Workplane"] >>] >> }

\* lines 93-103
ItemsOfParts(p) ==
    CASE p.tag = "dict"   -> [i \in 1..Len(p.elems) |-> [name |-> p.elems[i].name, kind |-> p.elems[i].kind]]
      [] p.tag = "list"   -> [i \in 1..Len(p.elems) |->
                                IF p.elems[i].pair
                                THEN [name |-> p.elems[i].name, kind |-> p.elems[i].kind]
                                ELSE [name |-> PartName(i), kind |-> p.elems[i].kind]]
      [] p.tag = "single" -> << [name |-> PartName(1), kind |-> p.elems[1].kind] >>
      [] OTHER            -> <<>>

\* lines 105-109
ScanEnv(e) == SelectSeq(e, LAMBDA kv : kv.kind \in {"Workplane", "Compound"})

CollectItems_Merged(p, e) == ItemsOfParts(p) \o ScanEnv(e)

\* lines 93-109
CollectItems(p, e) == IF ItemsOfParts(p) # <<>> THEN ItemsOfParts(p) ELSE ScanEnv(e)


(***************************************************************************)
(* cadlib/validators.py : pydantic models                                  *)
(*                                                                         *)
(* A keyword argument is <<>> when omitted and <<v>> when supplied.  The   *)
(* fields are validated in declaration order; a supplied value passes the  *)
(* Field(ge=, le=) or Literal check first and the field_validator after    *)
(* it; an omitted field takes its default without validation; info.data    *)
(* holds the earlier fields that validated, defaults included.             *)
(***************************************************************************)
Given(a) == a # <<>>

ValOr(a, default) == IF Given(a) THEN a[1] ELSE default

RangeErr(a, ge, le) == Given(a) /\ ~(ge <= a[1] /\ a[1] <= le)

LiteralErr(a, allowed) == Given(a) /\ a[1] \notin allowed

Pending == [state |-> "pending", ok |-> FALSE, errors |-> {}, data |-> [cls |-> "none"]]

NoGeom == [fn |-> "none"]

Outcome(errors, data) ==
    [state |-> "done", ok |-> errors = {}, errors |-> errors,
     data |-> IF errors = {} THEN data ELSE [cls |-> "none"]]

END_STYLES == {"open", "one_end_closed", "both_closed"}

\* validators.py lines 12-18: TRUE when the validator raises
wall_reasonable(v, outer) == outer # 0 /\ v * 2 >= outer

\* validators.py lines 5-18; lengths in hundredths of a millimetre
TubeParams(kw) ==
    LET odErr  == RangeErr(kw.outer_diameter, 200, 100000)
        wtErr  == RangeErr(kw.wall_thickness, 80, 10000)
        hErr   == RangeErr(kw.height, 100, 200000)
        esErr  == LiteralErr(kw.end_style, END_STYLES)
        capErr == RangeErr(kw.end_cap_thickness, 80, 2000)
        \* info.data.get("outer_diameter", 0.0)
        outer  == IF odErr THEN 0 ELSE ValOr(kw.outer_diameter, 2000)
        wallErr == Given(kw.wall_thickness) /\ ~wtErr
                   /\ wall_reasonable(kw.wall_thickness[1], outer)
        errors ==
            (IF odErr THEN {"outer_diameter: out of range"} ELSE {})
            \cup (IF wtErr THEN {"wall_thickness: out of range"} ELSE {})
            \cup (IF wallErr THEN {"wall_thickness must be < outer_diameter / 2"} ELSE {})
            \cup (IF hErr THEN {"height: out of range"} ELSE {})
            \cup (IF esErr THEN {"end_style: not a permitted literal"} ELSE {})
            \cup (IF capErr THEN {"end_cap_thickness: out of range"} ELSE {})
    IN  Outcome(errors,
                [cls |-> "TubeParams",
                 outer_diameter |-> ValOr(kw.outer_diameter, 2000),
                 wall_thickness |-> ValOr(kw.wall_thickness, 240),
                 height |-> ValOr(kw.height, 4000),
                 end_style |-> ValOr(kw.end_style, "open"),
                 end_cap_thickness |-> ValOr(kw.end_cap_thickness, 200)])

SIZES == {"M2", "M2_5", "M3", "M4", "M5", "M6"}

FITS == {"TIGHT", "SNAP", "SLIDE"}

HEAD_TYPES == {"flat", "pan", "socket"}

\* Optional[float]: None is <<>>, the float v is <<v>>
DepthNone == <<>>

\* Optional[Literal[...]] = None
HeadNone == "None"

depth_required_for_blind_Negative(v, through) == ~through /\ (v = DepthNone \/ v[1] < 0)

\* validators.py lines 31-37: TRUE when the validator raises
depth_required_for_blind(v, through) == ~through /\ (v = DepthNone \/ v[1] <= 0)

\* validators.py lines 21-37
HoleSpec(kw) ==
    LET sizeMissing == ~Given(kw.size)
        sizeErr == LiteralErr(kw.size, SIZES)
        fitErr  == LiteralErr(kw.fit, FITS)
        headErr == Given(kw.head_type) /\ kw.head_type[1] \notin (HEAD_TYPES \cup {HeadNone})
        \* info.data.get("through", True); a bool always validates
        through == ValOr(kw.through, TRUE)
        depthErr == Given(kw.depth) /\ depth_required_for_blind(kw.depth[1], through)
        errors ==
            (IF sizeMissing THEN {"size: field required"} ELSE {})
            \cup (IF sizeErr THEN {"size: not a permitted literal"} ELSE {})
            \cup (IF fitErr THEN {"fit: not a permitted literal"} ELSE {})
            \cup (IF depthErr THEN {"depth must be provided for blind holes"} ELSE {})
            \cup (IF headErr THEN {"head_type: not a permitted literal"} ELSE {})
    IN  Outcome(errors,
                [cls |-> "HoleSpec",
                 standard |-> "ISO",
                 size |-> ValOr(kw.size, "M3"),
                 fit |-> ValOr(kw.fit, "SNAP"),
                 through |-> through,
                 depth |-> ValOr(kw.depth, DepthNone),
                 counterbore |-> ValOr(kw.counterbore, FALSE),
                 countersink |-> ValOr(kw.countersink, FALSE),
                 head_type |-> ValOr(kw.head_type, HeadNone)])

lid_taller_than_wall_Strict(v, height) == v > height

\* validators.py lines 48-54: TRUE when the validator raises
lid_taller_than_wall(v, height) == v >= height

\* validators.py lines 40-54
RectEnclosureParams(kw) ==
    LET lenErr == RangeErr(kw.length, 2000, 100000)
        widErr == RangeErr(kw.width, 2000, 100000)
        hErr   == RangeErr(kw.height, 1000, 100000)
        wtErr  == RangeErr(kw.wall_thickness, 120, 1000)
        lhErr  == RangeErr(kw.lid_height, 200, 3000)
        lcErr  == RangeErr(kw.lid_clearance, 5, 100)
        \* info.data.get("height", 0.0)
        height == IF hErr THEN 0 ELSE ValOr(kw.height, 4000)
        lidErr == Given(kw.lid_height) /\ ~lhErr
                  /\ lid_taller_than_wall(kw.lid_height[1], height)
        errors ==
            (IF lenErr THEN {"length: out of range"} ELSE {})
            \cup (IF widErr THEN {"width: out of range"} ELSE {})
            \cup (IF hErr THEN {"height: out of range"} ELSE {})
            \cup (IF wtErr THEN {"wall_thickness: out of range"} ELSE {})
            \cup (IF lhErr THEN {"lid_height: out of range"} ELSE {})
            \cup (IF lidErr THEN {"lid_height must be < total height"} ELSE {})
            \cup (IF lcErr THEN {"lid_clearance: out of range"} ELSE {})
    IN  Outcome(errors,
                [cls |-> "RectEnclosureParams",
                 length |-> ValOr(kw.length, 10000),
                 width |-> ValOr(kw.width, 6000),
                 height |-> ValOr(kw.height, 4000),
                 wall_thickness |-> ValOr(kw.wall_thickness, 240),
                 lid_height |-> ValOr(kw.lid_height, 400),
                 lid_clearance |-> ValOr(kw.lid_clearance, 20)])

(***************************************************************************)
(* cadlib/utils.py, cadlib/fasteners.py : screw holes                      *)
(***************************************************************************)
\* utils.py lines 4-12: class Fit, clearances in hundredths of a millimetre
Fit == [TIGHT |-> 10, SNAP |-> 20, SLIDE |-> 40]

apply_fit_to_hole_Shrink(nominal_diameter_mm, fit) == nominal_diameter_mm - fit

\* utils.py lines 19-25
apply_fit_to_hole(nominal_diameter_mm, fit) == nominal_diameter_mm + fit

\* fasteners.py lines 7-15
ISO_CLEARANCE_DIAMETERS_MM ==
    [M2 |-> 240, M2_5 |-> 300, M3 |-> 340, M4 |-> 450, M5 |-> 550, M6 |-> 660]

EmptyDict == <<>>

\* fasteners.py lines 18-30
HEAD_DIMENSIONS_MM ==
    [M3 |-> [pan |-> [d |-> 600, h |-> 240],
             socket |-> [d |-> 550, h |-> 300],
             flat |-> [d |-> 600, angle |-> 9000]],
     M4 |-> [pan |-> [d |-> 800, h |-> 310],
             socket |-> [d |-> 700, h |-> 400],
             flat |-> [d |-> 850, angle |-> 9000]]]

\* dict.get(key, {})
DictGet(dict, key) == IF key \in DOMAIN dict THEN dict[key] ELSE EmptyDict

\* fasteners.py lines 33-37
hole_diameter_for_spec(spec) ==
    apply_fit_to_hole(ISO_CLEARANCE_DIAMETERS_MM[spec.size], Fit[spec.fit])

\* fasteners.py lines 57-58
HeadOf(spec) ==
    IF spec.counterbore \/ spec.countersink
    THEN DictGet(DictGet(HEAD_DIMENSIONS_MM, spec.size),
                 IF spec.head_type = HeadNone THEN "" ELSE spec.head_type)
    ELSE EmptyDict

\* float(spec.depth) raises TypeError when spec.depth is None
FloatRaises(spec) == ~spec.through /\ spec.depth = DepthNone

\* depth = None if spec.through else float(spec.depth)
DepthArg(spec) == IF spec.through THEN DepthNone ELSE spec.depth

\* fasteners.py lines 61-79: the cut made at one location
HoleOp(spec, loc) ==
    LET hole_d == hole_diameter_for_spec(spec)
        head == HeadOf(spec)
    IN  IF spec.countersink /\ spec.head_type = "flat" /\ "angle" \in DOMAIN head
        THEN [op |-> "cskHole", at |-> loc, d |-> hole_d,
              csk_d |-> IF "d" \in DOMAIN head THEN head.d ELSE hole_d * 2,
              angle |-> head.angle, depth |-> DepthArg(spec)]
        ELSE IF spec.counterbore /\ spec.head_type \in {"pan", "socket"}
                /\ "d" \in DOMAIN head /\ "h" \in DOMAIN head
        THEN [op |-> "cboreHole", at |-> loc, d |-> hole_d,
              cbore_d |-> head.d + 20, cbore_h |-> head.h + 30, depth |-> DepthArg(spec)]
        ELSE [op |-> "hole", at |-> loc, d |-> hole_d, depth |-> DepthArg(spec)]

\* fasteners.py lines 40-81
apply_screw_holes(locations_xyz_mm, spec) ==
    IF locations_xyz_mm # <<>> /\ FloatRaises(spec)
    THEN [fn |-> "apply_screw_holes", raised |-> "TypeError", ops |-> <<>>]
    ELSE [fn |-> "apply_screw_holes", raised |-> "",
          ops |-> [i \in 1..Len(locations_xyz_mm) |-> HoleOp(spec, locations_xyz_mm[i])]]

(***************************************************************************)
(* cadlib/cylinders.py : tube                                              *)
(*                                                                         *)
(* A cylinder is its radius and the z interval it spans.  CadQuery's       *)
(* extrude(d) spans d upward from the workplane; extrude(d, both=True)     *)
(* extrudes d in both directions, spanning -d .. +d about the workplane.   *)
(* The modelled lengths are even, so halving them is exact.                *)
(***************************************************************************)
Max(a, b) == IF a >= b THEN a ELSE b

Min(a, b) == IF a <= b THEN a ELSE b

\* Workplane("XY").workplane(offset=o).circle(r).extrude(d)
Extrude(r, o, d) == [r |-> r, z0 |-> o, z1 |-> o + d]

\* Workplane("XY").circle(r).extrude(d, both=True)
ExtrudeBoth(r, d) == [r |-> r, z0 |-> 0 - d, z1 |-> d]

\* cylinders.py line 12
outer_radius(params) == params.outer_diameter \div 2

inner_radius_NoWall(params) == Max(outer_radius(params), 0)

\* cylinders.py line 13
inner_radius(params) == Max(outer_radius(params) - params.wall_thickness, 0)

\* cylinders.py lines 21-52: the voids cut from the body, none or one
TubeVoids(params) ==
    IF inner_radius(params) > 0
    THEN CASE params.end_style = "open" ->
                << ExtrudeBoth(inner_radius(params), params.height) >>
           [] params.end_style = "one_end_closed" ->
                LET start_offset == (0 - params.height) \div 2 + params.end_cap_thickness
                    cut_height == params.height - params.end_cap_thickness
                IN  IF cut_height > 0
                    THEN << Extrude(inner_radius(params), start_offset, cut_height) >>
                    ELSE <<>>
           [] params.end_style = "both_closed" ->
                LET start_offset == (0 - params.height) \div 2 + params.end_cap_thickness
                    cut_height == params.height - 2 * params.end_cap_thickness
                IN  IF cut_height > 0
                    THEN << Extrude(inner_radius(params), start_offset, cut_height) >>
                    ELSE <<>>
           [] OTHER -> <<>>
    ELSE <<>>

\* cylinders.py lines 6-54
tube(params) ==
    IF params.height <= 0
    THEN [fn |-> "tube", raised |-> "ValueError: height must be > 0",
          body |-> ExtrudeBoth(0, 0), voids |-> <<>>]
    ELSE [fn |-> "tube", raised |-> "",
          body |-> ExtrudeBoth(outer_radius(params), params.height),
          voids |-> TubeVoids(params)]

(***************************************************************************)
(* cadlib/enclosures.py : rectangular enclosure                            *)
(*                                                                         *)
(* A validated params object carries the declared fields of its class      *)
(* only: pydantic ignores a keyword argument that names no field, and      *)
(* reading an attribute that is no field raises AttributeError.            *)
(***************************************************************************)
\* getattr(obj, name, default)
GetAttr(obj, name, default) == IF name \in DOMAIN obj THEN obj[name] ELSE default

\* enclosures.py lines 22-24: r = getattr(params, "corner_radius", 0) or 0
corner_radius_used(params) ==
    LET r == GetAttr(params, "corner_radius", 0)
        max_r == Max(0, Min(params.length, params.width) \div 2 - 10)
    IN  Min(r, max_r)

\* enclosures.py lines 5-66: the radius filleted on each profile (0 when the
\* profile is left sharp) and the dimensions derived for lip and recess
rectangular_enclosure_base_and_lid(params) ==
    LET L == params.length
        W == params.width
        t == params.wall_thickness
        lid_h == params.lid_height
        clearance == params.lid_clearance
        cr == corner_radius_used(params)
        lip_h == Min((lid_h * 6) \div 10, Max(200, lid_h - 100))
        inner_lip_L == L - 2 * (t + clearance)
        inner_lip_W == W - 2 * (t + clearance)
    IN  [fn |-> "rectangular_enclosure_base_and_lid", raised |-> "",
         base_fillet |-> IF cr > 0 THEN cr ELSE 0,
         lid_fillet |-> IF cr > 0 THEN cr ELSE 0,
         lip_h |-> lip_h,
         inner_lip_L |-> inner_lip_L, inner_lip_W |-> inner_lip_W,
         recess_L |-> inner_lip_L + 2 * clearance,
         recess_W |-> inner_lip_W + 2 * clearance]

(***************************************************************************)
(* Constructor calls and feature calls made by a caller script             *)
(***************************************************************************)
MaxHoles == 2

Opt(S) == {<<>>} \cup { <<v>> : v \in S }

TubeCalls ==
    [cls : {"TubeParams"},
     kw : [outer_diameter : Opt({100, 200, 400, 1000}),
           wall_thickness : Opt({50, 80, 100, 200, 500}),
           height : Opt({50, 100, 1000}),
           end_style : Opt(END_STYLES \cup {"capped"}),
           end_cap_thickness : Opt({80, 500})]]

HoleCalls ==
    [cls : {"HoleSpec"},
     kw : [size : Opt(SIZES \cup {"M8"}),
           fit : Opt({"TIGHT", "SLIDE"}),
           through : Opt(BOOLEAN),
           depth : Opt({DepthNone, <<0 - 100>>, <<0>>, <<300>>}),
           counterbore : Opt({TRUE}),
           countersink : Opt({TRUE}),
           head_type : Opt(HEAD_TYPES)]]

RectCalls ==
    [cls : {"RectEnclosureParams"},
     kw : [length : Opt({2000, 20000}),
           width : Opt({1000, 2000}),
           height : Opt({500, 1000, 2000, 3000}),
           wall_thickness : Opt({120, 1000}),
           lid_height : Opt({100, 200, 1000, 2000, 3000, 3500}),
           lid_clearance : Opt({5}),
           corner_radius : Opt({400, 2000})]]

Locations == { <<0, 0, 0>>, <<2000, 0 - 1000, 250>> }

ValidInit ==
    /\ vcase \in TubeCalls \cup HoleCalls \cup RectCalls
    /\ vresult = Pending
    /\ geom = NoGeom

ConstructTubeParams ==
    /\ vcase.cls = "TubeParams" /\ vresult.state = "pending"
    /\ vresult' = TubeParams(vcase.kw)
    /\ UNCHANGED <<vcase, geom>>
    /\ UNCHANGED <<runnerVars, patVars>>

ConstructHoleSpec ==
    /\ vcase.cls = "HoleSpec" /\ vresult.state = "pending"
    /\ vresult' = HoleSpec(vcase.kw)
    /\ UNCHANGED <<vcase, geom>>
    /\ UNCHANGED <<runnerVars, patVars>>

ConstructRectEnclosureParams ==
    /\ vcase.cls = "RectEnclosureParams" /\ vresult.state = "pending"
    /\ vresult' = RectEnclosureParams(vcase.kw)
    /\ UNCHANGED <<vcase, geom>>
    /\ UNCHANGED <<runnerVars, patVars>>

ApplyScrewHoles ==
    /\ vresult.state = "done" /\ vresult.ok /\ vresult.data.cls = "HoleSpec"
    /\ geom = NoGeom
    /\ \E locs \in SeqsUpTo(Locations, MaxHoles) :
          geom' = apply_screw_holes(locs, vresult.data)
    /\ UNCHANGED <<vcase, vresult>>
    /\ UNCHANGED <<runnerVars, patVars>>

CallTube ==
    /\ vresult.state = "done" /\ vresult.ok /\ vresult.data.cls = "TubeParams"
    /\ geom = NoGeom
    /\ geom' = tube(vresult.data)
    /\ UNCHANGED <<vcase, vresult>>
    /\ UNCHANGED <<runnerVars, patVars>>

CallRectEnclosure ==
    /\ vresult.state = "done" /\ vresult.ok /\ vresult.data.cls = "RectEnclosureParams"
    /\ geom = NoGeom
    /\ geom' = rectangular_enclosure_base_and_lid(vresult.data)
    /\ UNCHANGED <<vcase, vresult>>
    /\ UNCHANGED <<runnerVars, patVars>>

NextValid ==
    \/ ConstructTubeParams
    \/ ConstructHoleSpec
    \/ ConstructRectEnclosureParams
    \/ ApplyScrewHoles
    \/ CallTube
    \/ CallRectEnclosure

(***************************************************************************)
(* cadlib/standards.py : hole patterns                                     *)
(***************************************************************************)
\* cos of an angle given in tenths of a degree, times 100 (Bhaskara's
\* approximation of math.cos, folded to the first quadrant)
CosQ(x) == (100 * (3240000 - 4 * x * x)) \div (3240000 + x * x)

Cos100(a) ==
    LET r == a % 3600
    IN  IF r <= 900 THEN CosQ(r)
        ELSE IF r <= 2700 THEN 0 - CosQ(r - 1800)
        ELSE CosQ(r - 3600)

Sin100(a) == Cos100(a - 900)

Square(half, origin) ==
    << <<origin[1] - half, origin[2] - half, origin[3]>>,
       <<origin[1] + half, origin[2] - half, origin[3]>>,
       <<origin[1] + half, origin[2] + half, origin[3]>>,
       <<origin[1] - half, origin[2] + half, origin[3]>> >>

Returned(pts) == [state |-> "done", raised |-> "", pts |-> pts]

Raised(msg) == [state |-> "done", raised |-> msg, pts |-> <<>>]

\* standards.py lines 5-19: pitch 31.0 mm, half = pitch / 2.0
pattern_nema17(origin) == Returned(Square(3100 \div 2, origin))

pattern_vesa_AnySize(size_mm, origin) == Returned(Square((size_mm * 100) \div 2, origin))

\* standards.py lines 22-37: size_mm in whole millimetres, half = size_mm / 2.0
pattern_vesa(size_mm, origin) ==
    IF size_mm \notin {75, 100}
    THEN Raised("ValueError: VESA size must be 75 or 100 mm")
    ELSE Returned(Square((size_mm * 100) \div 2, origin))

bolt_circle_SkipFirst(n, radius, start_angle_deg, origin) ==
    IF n = 0
    THEN Raised("ZeroDivisionError")
    ELSE LET step == 3600 \div n
         IN  Returned([k \in 1..(n - 1) |->
                 LET ang == start_angle_deg + step * k
                 IN  << origin[1] + (radius * Cos100(ang)) \div 100,
                        origin[2] + (radius * Sin100(ang)) \div 100,
                        origin[3] >>])

\* standards.py lines 40-51: angles in tenths of a degree
bolt_circle(n, radius, start_angle_deg, origin) ==
    IF n = 0
    THEN Raised("ZeroDivisionError")
    ELSE LET step == 3600 \div n
         IN  Returned([k \in 1..n |->
                 LET ang == start_angle_deg + step * (k - 1)
                 IN  << origin[1] + (radius * Cos100(ang)) \div 100,
                        origin[2] + (radius * Sin100(ang)) \div 100,
                        origin[3] >>])

\* Instances placed by an array function, with the angle of each
Placed(angs, pts) == [state |-> "done", raised |-> "", pts |-> pts, angs |-> angs]

\* cadlib/patterns.py lines 45-60: angles in tenths of a degree; the step is
\* computed before the loop, 360.0 / n dividing by zero when n = 0
circular_array(n, radius, start_angle_deg, arc_span_deg) ==
    IF arc_span_deg >= 3600 /\ n = 0
    THEN Raised("ZeroDivisionError")
    ELSE LET step == IF arc_span_deg < 3600
                     THEN arc_span_deg \div Max(n - 1, 1)
                     ELSE 3600 \div n
             ang(i) == start_angle_deg + step * i
         IN  Placed([k \in 1..n |-> ang(k - 1)],
                    [k \in 1..n |-> << (radius * Cos100(ang(k - 1))) \div 100,
                                       (radius * Sin100(ang(k - 1))) \div 100,
                                       0 >>])

MaxN == 5

Origins == { <<0, 0, 0>>, <<1000, 0 - 500, 300>>, <<0 - 250, 4000, 0 - 150>> }

PatternCalls ==
    [fn : {"pattern_nema17"}, origin : Origins]
    \cup [fn : {"pattern_vesa"}, size_mm : {0, 50, 75, 100, 200}, origin : Origins]
    \cup [fn : {"bolt_circle"}, n : 0..MaxN, radius : {1000, 5000},
          start_angle_deg : {0, 300, 900}, origin : Origins]
    \cup [fn : {"circular_array"}, n : 0..MaxN, radius : {2000},
          start_angle_deg : {0, 300}, arc_span_deg : {600, 1800, 3600, 7200}]

PatInit ==
    /\ pcall \in PatternCalls
    /\ presult = [state |-> "pending", raised |-> "", pts |-> <<>>]

CallPatternNema17 ==
    /\ pcall.fn = "pattern_nema17" /\ presult.state = "pending"
    /\ presult' = pattern_nema17(pcall.origin)
    /\ UNCHANGED pcall
    /\ UNCHANGED <<runnerVars, validVars>>

CallPatternVesa ==
    /\ pcall.fn = "pattern_vesa" /\ presult.state = "pending"
    /\ presult' = pattern_vesa(pcall.size_mm, pcall.origin)
    /\ UNCHANGED pcall
    /\ UNCHANGED <<runnerVars, validVars>>

CallBoltCircle ==
    /\ pcall.fn = "bolt_circle" /\ presult.state = "pending"
    /\ presult' = bolt_circle(pcall.n, pcall.radius, pcall.start_angle_deg, pcall.origin)
    /\ UNCHANGED pcall
    /\ UNCHANGED <<runnerVars, validVars>>

CallCircularArray ==
    /\ pcall.fn = "circular_array" /\ presult.state = "pending"
    /\ presult' = circular_array(pcall.n, pcall.radius, pcall.start_angle_deg, pcall.arc_span_deg)
    /\ UNCHANGED pcall
    /\ UNCHANGED <<runnerVars, validVars>>

NextPat == CallPatternNema17 \/ CallPatternVesa \/ CallBoltCircle \/ CallCircularArray

(***************************************************************************)
(* run_generated_guarded.py : main()                                       *)
(***************************************************************************)
Scripts ==
    [hasArg : BOOLEAN, parses : BOOLEAN, imports : SeqsUpTo(ImportNodes, MaxImports)]

RunnerIdle ==
    /\ pc = "idle" /\ exitStatus = Running /\ executed = FALSE
    /\ script = [hasArg |-> FALSE, parses |-> FALSE, imports |-> <<>>]
    /\ env = <<>> /\ build = "absent" /\ parts = PartsNone
    /\ items = <<>> /\ idx = 1 /\ files = {} /\ diag = <<>>

ValidIdle == vcase = [cls |-> "none"] /\ vresult = Pending /\ geom = NoGeom

PatIdle == pcall = [fn |-> "none"] /\ presult = [state |-> "idle", raised |-> "", pts |-> <<>>]

RunnerInit ==
    /\ script \in { s \in Scripts : (~s.hasArg \/ ~s.parses) => s.imports = <<>> }
    /\ pc = "args" /\ exitStatus = Running /\ executed = FALSE
    /\ env = <<>> /\ build = "absent" /\ parts = PartsNone
    /\ items = <<>> /\ idx = 1 /\ files = {} /\ diag = <<>>

Exit(status, msg) ==
    /\ pc' = "exit"
    /\ exitStatus' = status
    /\ diag' = Append(diag, msg)

\* lines 54-56
CheckArgs ==
    /\ pc = "args"
    /\ IF ~script.hasArg
       THEN Exit(2, "usage")
       ELSE pc' = "parse" /\ UNCHANGED <<exitStatus, diag>>
    /\ UNCHANGED <<script, executed, env, build, parts, items, idx, files>>
    /\ UNCHANGED <<validVars, patVars>>

\* line 62: a SyntaxError is not caught, the interpreter reports it
Parse ==
    /\ pc = "parse"
    /\ IF ~script.parses
       THEN Exit(1, "traceback")
       ELSE pc' = "guard" /\ UNCHANGED <<exitStatus, diag>>
    /\ UNCHANGED <<script, executed, env, build, parts, items, idx, files>>
    /\ UNCHANGED <<validVars, patVars>>

\* lines 63-67: raise SystemExit(str) exits with status 1
Guard ==
    /\ pc = "guard"
    /\ IF FirstHit(script.imports) # 0
       THEN Exit(1, "forbidden_import")
       ELSE pc' = "exec" /\ UNCHANGED <<exitStatus, diag>>
    /\ UNCHANGED <<script, executed, env, build, parts, items, idx, files>>
    /\ UNCHANGED <<validVars, patVars>>

\* lines 75-80: the script's top-level code runs; an Exception is caught and
\* reported; a SystemExit raised by the script (sys.exit(code)) is no
\* Exception, passes the handler and ends the process with the script's code.
ExecOk ==
    /\ pc = "exec"
    /\ executed' = TRUE
    /\ env' \in EnvSet
    /\ build' \in {"absent", "callable"}
    /\ pc' = "build"
    /\ UNCHANGED <<script, exitStatus, parts, items, idx, files, diag>>
    /\ UNCHANGED <<validVars, patVars>>

ExecRaises_Swallowed ==
    /\ pc = "exec"
    /\ executed' = TRUE
    /\ diag' = Append(diag, "exec_exception")
    /\ env' = <<>> /\ build' = "absent"
    /\ pc' = "build"
    /\ UNCHANGED <<script, exitStatus, parts, items, idx, files>>
    /\ UNCHANGED <<validVars, patVars>>

ExecRaises ==
    /\ pc = "exec"
    /\ executed' = TRUE
    /\ Exit(1, "exec_exception")
    /\ UNCHANGED <<script, env, build, parts, items, idx, files>>
    /\ UNCHANGED <<validVars, patVars>>

ExecSysExit ==
    /\ pc = "exec"
    /\ executed' = TRUE
    /\ \E code \in {0, 1} : exitStatus' = code
    /\ pc' = "exit"
    /\ UNCHANGED <<script, env, build, parts, items, idx, files, diag>>
    /\ UNCHANGED <<validVars, patVars>>

\* lines 83-91
BuildAbsent ==
    /\ pc = "build" /\ build = "absent"
    /\ parts' = PartsNone
    /\ pc' = "collect"
    /\ UNCHANGED <<script, exitStatus, executed, env, build, items, idx, files, diag>>
    /\ UNCHANGED <<validVars, patVars>>

BuildReturnsParts ==
    /\ pc = "build" /\ build = "callable"
    /\ parts' \in BuildReturns
    /\ pc' = "collect"
    /\ UNCHANGED <<script, exitStatus, executed, env, build, items, idx, files, diag>>
    /\ UNCHANGED <<validVars, patVars>>

BuildRaises ==
    /\ pc = "build" /\ build = "callable"
    /\ parts' = PartsNone
    /\ diag' = diag \o <<"build_raised", "falling_back">>
    /\ pc' = "collect"
    /\ UNCHANGED <<script, exitStatus, executed, env, build, items, idx, files>>
    /\ UNCHANGED <<validVars, patVars>>

\* lines 93-115
Collect ==
    /\ pc = "collect"
    /\ items' = CollectItems(parts, env)
    /\ IF items' = <<>>
       THEN Exit(1, "no_outputs")
       ELSE pc' = "export" /\ UNCHANGED <<exitStatus, diag>>
    /\ UNCHANGED <<script, executed, env, build, parts, idx, files>>
    /\ UNCHANGED <<validVars, patVars>>

\* lines 117-127: only an object of another type can fail to wrap
WrapFails ==
    /\ pc = "export" /\ idx <= Len(items)
    /\ items[idx].kind = "other"
    /\ Exit(1, "not_recognized")
    /\ UNCHANGED <<script, executed, env, build, parts, items, idx, files>>
    /\ UNCHANGED <<validVars, patVars>>

WriteFile(fs, stem, i) == { f \in fs : f.stem # stem } \cup { [stem |-> stem, item |-> i] }

\* lines 129-132
ExportOk ==
    /\ pc = "export" /\ idx <= Len(items)
    /\ files' = WriteFile(files, SanitizeName(items[idx].name), idx)
    /\ diag' = Append(diag, "exported")
    /\ idx' = idx + 1
    /\ UNCHANGED <<script, pc, exitStatus, executed, env, build, parts, items>>
    /\ UNCHANGED <<validVars, patVars>>

ExportFails_Continues ==
    /\ pc = "export" /\ idx <= Len(items)
    /\ diag' = Append(diag, "export_failed")
    /\ idx' = idx + 1
    /\ UNCHANGED <<script, pc, exitStatus, executed, env, build, parts, items, files>>
    /\ UNCHANGED <<validVars, patVars>>

\* lines 133-136
ExportFails ==
    /\ pc = "export" /\ idx <= Len(items)
    /\ Exit(1, "export_failed")
    /\ UNCHANGED <<script, executed, env, build, parts, items, idx, files>>
    /\ UNCHANGED <<validVars, patVars>>

\* main() returns after the loop: exit status 0
Finish ==
    /\ pc = "export" /\ idx > Len(items)
    /\ pc' = "exit"
    /\ exitStatus' = 0
    /\ UNCHANGED <<script, executed, env, build, parts, items, idx, files, diag>>
    /\ UNCHANGED <<validVars, patVars>>

Next ==
    \/ CheckArgs \/ Parse \/ Guard
    \/ ExecOk \/ ExecRaises \/ ExecSysExit
    \/ BuildAbsent \/ BuildReturnsParts \/ BuildRaises
    \/ Collect
    \/ WrapFails \/ ExportOk \/ ExportFails
    \/ Finish

Init == RunnerInit /\ ValidIdle /\ PatIdle

Spec == Init /\ [][Next]_vars

\* Constructor and feature calls of cadlib, the runner idle
InitValid == RunnerIdle /\ ValidInit /\ PatIdle

SpecValid == InitValid /\ [][NextValid]_vars

\* Pattern calls of cadlib/standards.py, the runner idle
InitPat == RunnerIdle /\ ValidIdle /\ PatInit

SpecPat == InitPat /\ [][NextPat]_vars

(***************************************************************************)
(* Claims about the script runner (checked under Spec)                     *)
(***************************************************************************)
Has(log, msg) == \E i \in 1..Len(log) : log[i] = msg

\* An import statement names a kernel package when any imported module of an
\* "import a, b" list, or the module of a "from m import x", has its
\* top-level package in FORBIDDEN.
NamesKernel(node) ==
    IF node.type = "Import"
    THEN \E i \in 1..Len(node.names) : SplitHead(node.names[i]) \in FORBIDDEN
    ELSE SplitHead(node.module) \in FORBIDDEN

HasKernelImport == \E i \in 1..Len(script.imports) : NamesKernel(script.imports[i])

\* C1: a script whose source contains an import statement naming a kernel
\* package (at any depth, at any position of a multi-name import) is never
\* executed, and the runner terminates with a non-zero status.
C1_KernelImportNeverExecuted ==
    HasKernelImport =>
        /\ ~executed
        /\ (pc = "exit" => exitStatus # 0)

\* C2: the exit status is non-zero when the source fails to parse, when the
\* script contains a forbidden import, when the script's top-level code
\* raises an exception, and when exporting an output raises an exception.
C2_FailuresExitNonZero ==
    pc = "exit" =>
        (   (  ~script.parses
            \/ HasKernelImport
            \/ Has(diag, "exec_exception")
            \/ Has(diag, "export_failed") )
         => exitStatus # 0 )

ExceptionRaised == Has(diag, "exec_exception") \/ Has(diag, "build_raised")

\* C3 as stated: after any exception raised while running the script, in its
\* top-level code or inside build(), a diagnostic is printed, no file is
\* exported, and the runner terminates with a non-zero status.
C3_NoRecoveryFromAnyException ==
    ExceptionRaised =>
        /\ files = {}
        /\ (pc = "exit" => exitStatus # 0)

\* C3 amended: an exception in the script's top-level code ends the run at
\* once with a diagnostic, status 1 and no file written; an exception inside
\* build() is reported and the runner falls back to the solids found among
\* the module globals, which are the only outputs it then collects.
C3_NoRecoveryFromExecException ==
    /\ Has(diag, "exec_exception") =>
          (pc = "exit" /\ exitStatus = 1 /\ items = <<>> /\ files = {})
    /\ Has(diag, "build_raised") =>
          /\ Has(diag, "falling_back")
          /\ parts = PartsNone
          /\ (pc \in {"export", "exit"} => items = ScanEnv(env))
          /\ (pc = "exit" /\ items = <<>> => exitStatus = 1)

C3_Witness ==
    /\ Has(diag, "exec_exception")
    /\ executed
    /\ pc = "exit"

\* C4: after a run that exits with status 0, the collected outputs with
\* distinct names each have their own .stl file: as many files as outputs,
\* none overwritten by another output's.
C4_OneFilePerOutput ==
    (pc = "exit" /\ exitStatus = 0 /\ DistinctNames(items)) =>
        /\ Cardinality(files) = Len(items)
        /\ \A i \in 1..Len(items) :
              \E f \in files : f.item = i /\ f.stem = SanitizeName(items[i].name)

(***************************************************************************)
(* Claims about the validators (checked under SpecValid)                   *)
(***************************************************************************)
Constructing(cls) == vcase.cls = cls /\ vresult.state = "done"

\* C5: every constructed TubeParams has 2 * wall_thickness < outer_diameter,
\* and a construction whose wall_thickness and outer_diameter are within
\* their ranges with 2 * wall_thickness >= outer_diameter is rejected with
\* the message 'wall_thickness must be < outer_diameter / 2'.
C5_WallLessThanHalfOuter ==
    Constructing("TubeParams") =>
        LET outer == ValOr(vcase.kw.outer_diameter, 2000)
            wall == ValOr(vcase.kw.wall_thickness, 240)
        IN  /\ vresult.ok =>
                 2 * vresult.data.wall_thickness < vresult.data.outer_diameter
            /\ (   200 <= outer /\ outer <= 100000
                /\ 80 <= wall /\ wall <= 10000
                /\ 2 * wall >= outer )
               => /\ ~vresult.ok
                  /\ "wall_thickness must be < outer_diameter / 2" \in vresult.errors

\* C6: a HoleSpec with through=False and an explicitly supplied depth <= 0
\* is rejected, so every constructed HoleSpec with through=False and a
\* supplied depth has depth > 0.
C6_BlindDepthPositive ==
    Constructing("HoleSpec") =>
        /\ (   Given(vcase.kw.through) /\ ~vcase.kw.through[1]
            /\ Given(vcase.kw.depth)
            /\ vcase.kw.depth[1] # DepthNone
            /\ vcase.kw.depth[1][1] <= 0 )
           => ~vresult.ok
        /\ (vresult.ok /\ ~vresult.data.through /\ Given(vcase.kw.depth))
           => /\ vresult.data.depth # DepthNone
              /\ vresult.data.depth[1] > 0

C6_Witness ==
    /\ Constructing("HoleSpec")
    /\ vcase.kw.through = <<FALSE>>
    /\ vcase.kw.depth = << <<0>> >>
    /\ Given(vcase.kw.size) /\ vcase.kw.size[1] \in SIZES
    /\ ~vresult.ok
    /\ vresult.errors = {"depth must be provided for blind holes"}

\* C7: a HoleSpec with through=False and depth omitted (its size one of the
\* permitted sizes) cannot be constructed: it fails with
\* 'depth must be provided for blind holes', so
\* apply_screw_holes never evaluates float(spec.depth) with depth None.
C7_BlindNeedsDepth ==
    /\ (   Constructing("HoleSpec")
        /\ Given(vcase.kw.size) /\ vcase.kw.size[1] \in SIZES
        /\ Given(vcase.kw.through) /\ ~vcase.kw.through[1]
        /\ ~Given(vcase.kw.depth) )
       => /\ ~vresult.ok
          /\ "depth must be provided for blind holes" \in vresult.errors
    /\ geom.fn = "apply_screw_holes" => geom.raised # "TypeError"

\* C8 as stated: every constructed RectEnclosureParams has
\* lid_height < height, and every construction with lid_height >= height
\* (the height itself within its range) is rejected with the message
\* 'lid_height must be < total height'.
C8_LidBelowHeight ==
    Constructing("RectEnclosureParams") =>
        /\ vresult.ok => vresult.data.lid_height < vresult.data.height
        /\ (   ~RangeErr(vcase.kw.height, 1000, 100000)
            /\ ValOr(vcase.kw.lid_height, 400) >= ValOr(vcase.kw.height, 4000) )
           => /\ ~vresult.ok
              /\ "lid_height must be < total height" \in vresult.errors

\* C8 amended: every constructed RectEnclosureParams has lid_height < height,
\* and a construction with a supplied lid_height inside its own range
\* (2 to 30 mm) and lid_height >= height is rejected with the message
\* 'lid_height must be < total height'.
C8_LidBelowHeightInRange ==
    Constructing("RectEnclosureParams") =>
        /\ vresult.ok => vresult.data.lid_height < vresult.data.height
        /\ (   Given(vcase.kw.lid_height)
            /\ 200 <= vcase.kw.lid_height[1] /\ vcase.kw.lid_height[1] <= 3000
            /\ vcase.kw.lid_height[1] >= ValOr(vcase.kw.height, 4000) )
           => /\ ~vresult.ok
              /\ "lid_height must be < total height" \in vresult.errors

C8_Witness ==
    /\ Constructing("RectEnclosureParams")
    /\ vcase.kw.height = <<2000>>
    /\ vcase.kw.lid_height = <<2000>>
    /\ ~vresult.ok
    /\ vresult.errors = {"lid_height must be < total height"}

(***************************************************************************)
(* Claims about the hole patterns (checked under SpecPat)                  *)
(***************************************************************************)
Called(fn) == pcall.fn = fn /\ presult.state = "done"

\* C9: pattern_nema17 returns 4 points for every origin, pattern_vesa
\* returns 4 points for size 75 and for size 100, bolt_circle(n, ...)
\* returns n points for every n >= 1, and every returned point carries the
\* origin's z coordinate.
C9_PatternCounts ==
    /\ Called("pattern_nema17") =>
          presult.raised = "" /\ Len(presult.pts) = 4
    /\ (Called("pattern_vesa") /\ pcall.size_mm \in {75, 100}) =>
          presult.raised = "" /\ Len(presult.pts) = 4
    /\ (Called("bolt_circle") /\ pcall.n >= 1) =>
          presult.raised = "" /\ Len(presult.pts) = pcall.n
    /\ (Called("pattern_nema17") \/ Called("pattern_vesa") \/ Called("bolt_circle")) =>
          \A i \in 1..Len(presult.pts) : presult.pts[i][3] = pcall.origin[3]

C9_Witness ==
    /\ Called("bolt_circle")
    /\ pcall.n = 5
    /\ pcall.origin[3] # 0
    /\ Len(presult.pts) = 5

\* C10: pattern_vesa raises ValueError('VESA size must be 75 or 100 mm') and
\* returns no points for every size_mm other than 75 and 100; for 75 and
\* 100 its four points are the corners of the square of side size_mm
\* centred on the origin's x, y.
C10_VesaSizes ==
    Called("pattern_vesa") =>
        IF pcall.size_mm \notin {75, 100}
        THEN /\ presult.raised = "ValueError: VESA size must be 75 or 100 mm"
             /\ presult.pts = <<>>
        ELSE /\ presult.raised = ""
             /\ Len(presult.pts) = 4
             /\ { <<presult.pts[i][1] * 2, presult.pts[i][2] * 2>> : i \in 1..4 }
                = { <<pcall.origin[1] * 2 + sx * pcall.size_mm * 100,
                      pcall.origin[2] * 2 + sy * pcall.size_mm * 100>> :
                      sx \in {0 - 1, 1}, sy \in {0 - 1, 1} }

C10_Witness ==
    /\ Called("pattern_vesa")
    /\ pcall.size_mm = 200
    /\ presult.raised = "ValueError: VESA size must be 75 or 100 mm"

(***************************************************************************)
(* Claims about tube (checked under SpecValid)                             *)
(***************************************************************************)
\* C11: for every TubeParams accepted by validation and every end_style,
\* tube() does not raise 'height must be > 0', and every void it subtracts
\* has a radius strictly between 0 and the outer radius.
C11_TubeKeepsMaterial ==
    geom.fn = "tube" =>
        /\ geom.raised = ""
        /\ geom.body.r > 0
        /\ \A i \in 1..Len(geom.voids) :
              0 < geom.voids[i].r /\ geom.voids[i].r < geom.body.r

C11_Witness ==
    /\ geom.fn = "tube"
    /\ vresult.data.end_style = "both_closed"
    /\ Len(geom.voids) = 1
    /\ geom.voids[1].r > 0

(***************************************************************************)
(* Further claims about the script runner (checked under Spec)             *)
(***************************************************************************)
OutputsName == <<"o", "u", "t", "p", "u", "t", "s">>

HasOutputsGlobal ==
    \E i \in 1..Len(env) : env[i].name = OutputsName /\ env[i].kind = "dict"

OutputsGlobal == env[CHOOSE i \in 1..Len(env) : env[i].name = OutputsName]

\* C12: a script that defines no build() but sets the module-level variable
\* outputs = {name: solid} has the solids of that dict collected under
\* their names, exactly as if build() had returned the dict.
C12_OutputsGlobalCollected ==
    (pc = "exit" /\ executed /\ build = "absent" /\ HasOutputsGlobal) =>
        /\ items = ItemsOfParts([tag |-> "dict", elems |-> OutputsGlobal.elems])
        /\ ~Has(diag, "no_outputs")

Stems(fs) == { f.stem : f \in fs }

GlobalNames == { env[j].name : j \in 1..Len(env) }

\* C14: outputs come from build() first and from module globals only as a
\* fallback: when build() yields items (a non-empty dict in particular) the
\* items exported are exactly its entries, in order and under their names,
\* and no module global is among the items or the files written.
C14_BuildBeforeGlobals ==
    (pc = "export" /\ parts.elems # <<>>) =>
        /\ build = "callable"
        /\ Len(items) = Len(parts.elems)
        /\ \A i \in 1..Len(items) :
              /\ items[i].kind = parts.elems[i].kind
              /\ parts.tag = "dict" => items[i].name = parts.elems[i].name
              /\ items[i].name \notin GlobalNames
        /\ Stems(files) \cap GlobalNames = {}
        /\ \A f \in files : f.item \in 1..Len(parts.elems)

C14_Witness ==
    /\ pc = "export" /\ parts.tag = "dict" /\ Len(parts.elems) = 2
    /\ ScanEnv(env) # <<>>
    /\ idx = 3 /\ Cardinality(files) = 2

ExportFailed == pc = "exit" /\ Has(diag, "export_failed")

\* C15: outputs are exported one at a time in collection order, and the
\* first export failure stops the run: when the export of the k-th output
\* raises, the runner exits with status 1 at once, nothing after the k-th
\* output is exported, and the files of the first k-1 outputs stay written.
C15_FirstExportFailureStops ==
    /\ [](ExportFailed =>
            /\ exitStatus = 1
            /\ idx \in 1..Len(items)
            /\ Stems(files) = { SanitizeName(items[j].name) : j \in 1..(idx - 1) }
            /\ \A f \in files : f.item < idx)
    /\ [][/\ files' # files =>
               /\ idx' = idx + 1
               /\ [stem |-> SanitizeName(items[idx].name), item |-> idx] \in files'
               /\ \A f \in files' : f.item <= idx
          /\ Has(diag', "export_failed") => (pc' = "exit" /\ files' = files /\ idx' = idx)]_vars

C15_Witness ==
    /\ ExportFailed
    /\ Len(items) = 2 /\ idx = 2
    /\ Cardinality(files) = 1

\* C20: every file written lies directly in out/: its sanitized stem holds
\* only alphanumeric characters, '-' and '_' (no path separator, no '.'),
\* is never empty (an empty name becomes 'part'), and sanitizing it again
\* leaves it unchanged.
C20_StemStaysInOutDir ==
    \A f \in files :
        /\ f.stem # <<>>
        /\ \A i \in 1..Len(f.stem) :
              /\ f.stem[i] \in AlnumChars \cup {"-", "_"}
              /\ f.stem[i] \notin {"/", "\\", "."}
        /\ items[f.item].name = <<>> => f.stem = <<"p", "a", "r", "t">>
        /\ SanitizeName(f.stem) = f.stem

C20_Witness ==
    /\ \E f \in files : items[f.item].name = <<"a", "/", "b">> /\ f.stem = <<"a", "_", "b">>
    /\ \E f \in files : items[f.item].name = <<>> /\ f.stem = <<"p", "a", "r", "t">>

AllExported ==
    /\ items # <<>>
    /\ idx = Len(items) + 1
    /\ \A j \in 1..Len(items) : SanitizeName(items[j].name) \in Stems(files)

\* C21: the runner ends with exit status 0 only after at least one output
\* was collected and every collected output was exported; every run that
\* ends before any export (missing argument, parse failure, forbidden
\* import, the script terminating or raising during execution, no outputs
\* found, unrecognized output) ends with a non-zero status.
C21_ZeroOnlyAfterExports ==
    pc = "exit" =>
        /\ exitStatus = 0 => AllExported
        /\ files = {} => exitStatus # 0

(***************************************************************************)
(* Claims about screw holes (checked under SpecValid)                      *)
(***************************************************************************)
HolesCut == geom.fn = "apply_screw_holes" /\ geom.raised = ""

\* C13: the diameter apply_screw_holes cuts is the ISO clearance diameter of
\* the size plus the fit's allowance (TIGHT 0.10, SNAP 0.20, SLIDE 0.40 mm),
\* so it is strictly larger than the nominal diameter and strictly
\* increasing from TIGHT to SNAP to SLIDE for each size.
C13_FitAddsClearance ==
    HolesCut =>
        LET spec == vresult.data
            nominal == ISO_CLEARANCE_DIAMETERS_MM[spec.size]
            allowance == [TIGHT |-> 10, SNAP |-> 20, SLIDE |-> 40]
            d(f) == hole_diameter_for_spec([spec EXCEPT !.fit = f])
        IN  /\ \A i \in 1..Len(geom.ops) :
                  /\ geom.ops[i].d = nominal + allowance[spec.fit]
                  /\ geom.ops[i].d > nominal
            /\ d("TIGHT") < d("SNAP") /\ d("SNAP") < d("SLIDE")

C13_Witness ==
    /\ HolesCut
    /\ vresult.data.size = "M6" /\ vresult.data.fit = "SLIDE"
    /\ Len(geom.ops) = 2
    /\ geom.ops[2].d = 700

\* C16: apply_screw_holes chooses the operation from the spec's flags: with
\* counterbore=True every hole is a cboreHole with head dimensions, with
\* countersink=True every hole is a cskHole with an angle, and only a spec
\* with neither flag gets plain holes, for every size and every head_type.
C16_FlagsChooseOperation ==
    HolesCut =>
        LET spec == vresult.data
        IN  \A i \in 1..Len(geom.ops) :
              /\ (spec.counterbore /\ ~spec.countersink) => geom.ops[i].op = "cboreHole"
              /\ (spec.countersink /\ ~spec.counterbore) => geom.ops[i].op = "cskHole"
              /\ geom.ops[i].op = "hole" => (~spec.counterbore /\ ~spec.countersink)

(***************************************************************************)
(* Further claims about the tube (checked under SpecValid)                 *)
(***************************************************************************)
\* C17: the end closures match the declared style: the body spans z from
\* -height/2 to +height/2; for one_end_closed the void starts
\* end_cap_thickness above the body's bottom face and reaches the body's
\* top face; for both_closed the void leaves exactly end_cap_thickness of
\* solid at each end of the body.
C17_EndClosuresMatchStyle ==
    (geom.fn = "tube" /\ geom.raised = "") =>
        LET params == vresult.data
            body == geom.body
        IN  /\ body.z0 = (0 - params.height) \div 2
            /\ body.z1 = params.height \div 2
            /\ \A i \in 1..Len(geom.voids) :
                  LET void == geom.voids[i]
                  IN  /\ params.end_style = "one_end_closed" =>
                            /\ void.z0 = (0 - params.height) \div 2 + params.end_cap_thickness
                            /\ void.z0 - body.z0 = params.end_cap_thickness
                            /\ void.z1 >= body.z1
                      /\ params.end_style = "both_closed" =>
                            /\ void.z0 - body.z0 = params.end_cap_thickness
                            /\ body.z1 - void.z1 = params.end_cap_thickness

(***************************************************************************)
(* Claims about the rectangular enclosure (checked under SpecValid)        *)
(***************************************************************************)
EnclosureBuilt == geom.fn = "rectangular_enclosure_base_and_lid" /\ geom.raised = ""

\* C18: rounded corners are optional: RectEnclosureParams constructed with
\* corner_radius = r > 0 makes rectangular_enclosure_base_and_lid fillet the
\* base and the lid profile with radius min(r, min(length, width)/2 - 0.1),
\* and omitting corner_radius leaves both profiles sharp.
C18_CornerRadiusFillets ==
    EnclosureBuilt =>
        LET kw == vcase.kw
            limit == Min(vresult.data.length, vresult.data.width) \div 2 - 10
        IN  /\ (Given(kw.corner_radius) /\ kw.corner_radius[1] > 0) =>
                  /\ geom.base_fillet = Min(kw.corner_radius[1], limit)
                  /\ geom.lid_fillet = Min(kw.corner_radius[1], limit)
            /\ ~Given(kw.corner_radius) =>
                  (geom.base_fillet = 0 /\ geom.lid_fillet = 0)

(***************************************************************************)
(* Claims about cadlib/patterns.py (checked under SpecPat)                 *)
(***************************************************************************)
\* C19: circular_array places exactly n instances, the first at
\* start_angle_deg; for arc_span_deg < 360 and n >= 2 the last instance is at
\* start_angle_deg + arc_span_deg; for arc_span_deg >= 360 and n >= 1 the
\* instances are at start_angle_deg + i*360/n, no two at the same angle
\* modulo 360; and the call raises no arithmetic error for any n >= 0.
C19_CircularArrayPlacesN ==
    Called("circular_array") =>
        LET n == pcall.n
            start == pcall.start_angle_deg
            arc == pcall.arc_span_deg
            angs == presult.angs
        IN  /\ presult.raised = ""
            /\ Len(angs) = n /\ Len(presult.pts) = n
            /\ n >= 1 => angs[1] = start
            /\ (arc < 3600 /\ n >= 2) => angs[n] = start + arc
            /\ (arc >= 3600 /\ n >= 1) =>
                  /\ \A i \in 1..n : n * (angs[i] - start) = (i - 1) * 3600
                  /\ \A i, j \in 1..n : i # j => angs[i] % 3600 # angs[j] % 3600

\* C22: validation makes the enclosure well-formed: for every accepted
\* RectEnclosureParams the derived dimensions are strictly positive, with
\* 0 < lip_h < lid_height < height, the lip footprint
\* length/width - 2*(wall_thickness + lid_clearance) and the lid recess
\* footprint length/width - 2*wall_thickness.
C22_DerivedDimensionsPositive ==
    EnclosureBuilt =>
        LET params == vresult.data
        IN  /\ 0 < geom.lip_h /\ geom.lip_h < params.lid_height
            /\ params.lid_height < params.height
            /\ geom.inner_lip_L = params.length - 2 * (params.wall_thickness + params.lid_clearance)
            /\ geom.inner_lip_W = params.width - 2 * (params.wall_thickness + params.lid_clearance)
            /\ geom.inner_lip_L > 0 /\ geom.inner_lip_W > 0
            /\ geom.recess_L = params.length - 2 * params.wall_thickness
            /\ geom.recess_W = params.width - 2 * params.wall_thickness
            /\ geom.recess_L > 0 /\ geom.recess_W > 0

====
